---- MODULE Spec2Model ----
(***************************************************************************)
(* State-machine model of the SPI-mode MMC/SD driver hw/drivers/mmc/src/   *)
(* mmc.c: mmc_init, mmc_read, mmc_write, send_mmc_cmd and                  *)
(* mmc_error_by_status, together with the card, the chip-select line and   *)
(* the tick counter they talk to.                                          *)
(*                                                                         *)
(* One action models one straight-line piece of a driver function, from    *)
(* one point where the card or the clock can influence the control flow to *)
(* the next.  The card's answers are the inputs of the actions.            *)
(***************************************************************************)
EXTENDS Integers, Sequences, FiniteSets, TLC

----------------------------------------------------------------------------
(* Program constants (mmc.c)                                               *)

CMD0 == 0
CMD8 == 8
CMD12 == 12
CMD17 == 17
CMD18 == 18
CMD24 == 24
CMD25 == 25
CMD55 == 55
CMD58 == 58
ACMD41 == 128 + 41
HCS == 2^30

R_IDLE == 1
R_ERASE_RESET == 2
R_ILLEGAL_COMMAND == 4
R_CRC_ERROR == 8
R_ERASE_ERROR == 16
R_ADDR_ERROR == 32
R_PARAM_ERROR == 64

BLOCK_LEN == 512

(* Return codes of <mmc/mmc.h>; the driver relies on MMC_OK being 0        *)
(* ("res != MMC_OK" on a status byte, "@return 0 on success").             *)
MMC_OK == 0
MMC_CARD_ERROR == -1
MMC_READ_ERROR == -2
MMC_WRITE_ERROR == -3
MMC_TIMEOUT == -4
MMC_PARAM_ERROR == -5
MMC_CRC_ERROR == -6
MMC_DEVICE_ERROR == -7
MMC_RESPONSE_ERROR == -8
MMC_VOLTAGE_ERROR == -9

(* Tick rate of the timer service (os/os_time.h).                          *)
OS_TICKS_PER_SEC == 1000

----------------------------------------------------------------------------
(* Bounds of the model                                                     *)

\* number of 512-byte blocks of the simulated card
NumBlocks == 3
\* number of driver calls in one behaviour
MaxCalls == 2
\* a busy card releases the line within this many polls, or not before the
\* deadline
MaxBusyPolls == 1
\* number of calls in a behaviour that repeats an mmc_write and reads the
\* range back
MaxRepeatCalls == 3
\* the card holds the line busy up to the deadline of the busy wait in
\* the first MaxHungCalls calls only
MaxHungCalls == 1
\* a card sends a data token within this many polls, or not before the
\* deadline
MaxTokenPolls == 2
\* a card leaves the idle state within this many ACMD41 rounds, or not before
\* the deadline
MaxIdleRounds == 3
\* the caller starts its calls on ticks that are multiples of CallPeriod
CallPeriod == 10000

----------------------------------------------------------------------------
(* Input sets                                                              *)

\* R1 status bytes a card answers a command with (0x80, 0xFF: no answer)
R1Bytes == {0, 1, 4, 5, 128, 255}
\* what the card does during the response polls of one command: `n` bytes
\* 0xFF, then byte `b` for ever.  Here an immediate answer with each status
\* byte, 0x80 and 0xFF being no answer in 255 polls.
CardResps == { [n |-> 0, b |-> x] : x \in R1Bytes }
\* the card's behaviours during ACMD41, during CMD58 and CMD12, and during
\* the read and write commands
Acmd41Resps == { [n |-> 0, b |-> x] : x \in {0, 1, 4, 255} }
OcrResps == { [n |-> 0, b |-> x] : x \in {0, 4, 255} }
XferResps == { [n |-> 0, b |-> x] : x \in {0, 4, 255} }
\* answers that come at once, after one poll, at the last of the 255 polls
\* and after it
PollStreams == { [n |-> k, b |-> x] : k \in {0, 1, 254, 255}, x \in R1Bytes }
\* the card's behaviour during a CMD55 prefix: an answer, an error, none
Resps55 == { [n |-> 0, b |-> 1], [n |-> 0, b |-> 255] }
\* the card answers at once with status 0
RespOk == [n |-> 0, b |-> 0]
\* payloads of the R7 answer to CMD8
R7Payloads == { <<0, 0, 1, 170>>, <<0, 0, 1, 85>>, <<0, 0, 2, 170>>,
                <<255, 255, 255, 255>> }
\* payloads of the R3 answer to CMD58 (OCR): CCS set, CCS clear
R3Payloads == { <<192, 255, 128, 0>>, <<128, 255, 128, 0>> }
\* return values of hal_spi_init / hal_spi_config
HalRcs == {0, 22}
\* what the card puts on the line while the driver waits for a data token
TokenBytes == {255, 254, 9}
\* data-response tokens of a card that is receiving a block
DataRespBytes == {229, 235, 237, 255}
\* chip-select pin handed to mmc_init
SsPin == 3
Pins == {0, SsPin}
\* (byte_address, length) pairs of the read and write calls
XferArgs == { <<0, 0>>, <<100, 100>>, <<511, 2>>, <<100, 600>>,
              <<512, 1024>> }
\* slot ids
SlotIds == {0, 1}

Byte == 0 .. 255

----------------------------------------------------------------------------
(* Bit operations of C on non-negative integers                            *)

RECURSIVE BitAnd(_, _)
BitAnd(a, b) ==
    IF a = 0 \/ b = 0 THEN 0
    ELSE (a % 2) * (b % 2) + 2 * BitAnd(a \div 2, b \div 2)

BitOr(a, b) == a + b - BitAnd(a, b)

Min(n, m) == IF n < m THEN n ELSE m

----------------------------------------------------------------------------
(* mmc_error_by_status                                                     *)

\* mmc_error_by_status without the branch of lines 99-100
mmc_error_by_status_NoParam(st) ==
    IF st = 0 THEN MMC_OK
    ELSE IF BitAnd(st, R_IDLE) # 0 THEN MMC_TIMEOUT
    ELSE IF BitAnd(st, R_ERASE_RESET) # 0 THEN MMC_CARD_ERROR
    ELSE IF BitAnd(st, R_ILLEGAL_COMMAND) # 0 THEN MMC_CARD_ERROR
    ELSE IF BitAnd(st, R_CRC_ERROR) # 0 THEN MMC_CRC_ERROR
    ELSE MMC_CARD_ERROR

\* lines 82-104
mmc_error_by_status(st) ==
    IF st = 0 THEN MMC_OK
    ELSE IF BitAnd(st, R_IDLE) # 0 THEN MMC_TIMEOUT
    ELSE IF BitAnd(st, R_ERASE_RESET) # 0 THEN MMC_CARD_ERROR
    ELSE IF BitAnd(st, R_ILLEGAL_COMMAND) # 0 THEN MMC_CARD_ERROR
    ELSE IF BitAnd(st, R_CRC_ERROR) # 0 THEN MMC_CRC_ERROR
    ELSE IF BitAnd(st, R_ERASE_ERROR) # 0 THEN MMC_CARD_ERROR
    ELSE IF BitAnd(st, R_ADDR_ERROR) # 0 THEN MMC_CARD_ERROR
    ELSE IF BitAnd(st, R_PARAM_ERROR) # 0 THEN MMC_PARAM_ERROR
    ELSE MMC_CARD_ERROR

----------------------------------------------------------------------------
(* send_mmc_cmd                                                            *)

\* byte number i (1-based) of a card's response stream
StreamByte(stream, i) == IF i <= stream.n THEN 255 ELSE stream.b

\* the CRC byte of a command frame
CmdCrc(c) == IF c = CMD0 THEN 149 ELSE IF c = CMD8 THEN 135 ELSE 1

\* the six bytes of a command frame
CmdFrame(c, payload) ==
    << BitOr(64, c % 128),
       (payload \div 2^24) % 256,
       (payload \div 2^16) % 256,
       (payload \div 2^8) % 256,
       payload % 256,
       CmdCrc(c) >>

\* the high bit of a response byte is clear: (status & 0x80) == 0
HighBitClear(st) == (st \div 128) % 2 = 0

\* the response poll loop leaving one poll early: "for (n = 255; n > 1; n--)"
CmdPoll_Short(stream, n0) ==
    IF \E i \in 1 .. n0 - 1 : HighBitClear(StreamByte(stream, i))
    THEN LET first == CHOOSE i \in 1 .. n0 - 1 :
                          /\ HighBitClear(StreamByte(stream, i))
                          /\ \A j \in 1 .. i - 1 :
                                 ~HighBitClear(StreamByte(stream, j))
         IN  [n |-> n0 - first + 1, status |-> StreamByte(stream, first)]
    ELSE [n |-> 0, status |-> StreamByte(stream, n0 - 1)]

\* the response poll loop "for (n = 255; n > 0; n--)" started with n = n0:
\* poll number i is made with n = n0 - i + 1; the loop is left by the break
\* at the first poll whose byte has the high bit clear, or with n = 0 after
\* n0 polls.  Gives the loop counter and the status at loop exit.
CmdPoll(stream, n0) ==
    IF \E i \in 1 .. n0 : HighBitClear(StreamByte(stream, i))
    THEN LET first == CHOOSE i \in 1 .. n0 :
                          /\ HighBitClear(StreamByte(stream, i))
                          /\ \A j \in 1 .. i - 1 :
                                 ~HighBitClear(StreamByte(stream, j))
         IN  [n |-> n0 - first + 1, status |-> StreamByte(stream, first)]
    ELSE [n |-> 0, status |-> StreamByte(stream, n0)]

\* the poll loop of send_mmc_cmd (line 156, n = 255) for each behaviour of
\* the card
PollResult == [ stream \in PollStreams \cup Resps55 \cup {RespOk} |->
                  CmdPoll(stream, 255) ]

\* one frame and its response polls
CmdExchange(c, payload, stream) ==
    LET p == PollResult[stream]
    IN  [ stream |-> stream,
          status |-> p.status,
          cmd    |-> c % 128,
          frame  |-> CmdFrame(c, payload),
          polls  |-> IF p.n = 0 THEN 255 ELSE 255 - p.n + 1 ]

\* send_mmc_cmd giving up when the CMD55 prefix got no answer
send_mmc_cmd_CheckPrefix(c, payload, s55, s) ==
    IF BitAnd(c, 128) # 0
    THEN IF CmdExchange(CMD55, 0, s55).status >= 128
         THEN << CmdExchange(CMD55, 0, s55) >>
         ELSE << CmdExchange(CMD55, 0, s55), CmdExchange(c, payload, s) >>
    ELSE << CmdExchange(c, payload, s) >>

\* send_mmc_cmd(mmc, c, payload): the exchanges on the bus, in order, the
\* last one being the target command's; s55 is the card's behaviour during
\* the CMD55 prefix, s its behaviour during the target command
send_mmc_cmd(c, payload, s55, s) ==
    LET pre == IF BitAnd(c, 128) # 0
               THEN << CmdExchange(CMD55, 0, s55) >>
               ELSE << >>
    IN  pre \o << CmdExchange(c, payload, s) >>

\* the status byte send_mmc_cmd returns
CmdStatus(x) == x[Len(x)].status

\* bus-log events of a send_mmc_cmd call
CmdEvents(x) == [ i \in 1 .. Len(x) |-> [ev |-> "cmd", v |-> x[i].cmd] ]

\* some exchange of the call ended its polls without an answer
CmdNoResp(x) == \E i \in 1 .. Len(x) : x[i].status >= 128

----------------------------------------------------------------------------
(* State                                                                   *)

VARIABLES
    pc,           \* position of the running driver call, "idle" between calls
    call,         \* the running (or last) call: [op, id, addr, len]
    ret,          \* value returned by the last call that returned
    calls,        \* number of calls started
    now,          \* tick counter of the timer service (os_time_get)
    gpio,         \* level of each GPIO pin
    cs_asserts,   \* hal_gpio_write(ss_pin, 0) calls of the running call
    cs_releases,  \* hal_gpio_write(ss_pin, 1) calls of the running call
    g_mmc_cfg,    \* the device handle
    g_block_buf,  \* the scratch block buffer
    rc, status, cmd_resp, timeout,                       \* locals
    cmd, res, block_count, block_addr, offset, len, index,
    buf,          \* the caller's buffer (destination of read, source of write)
    card,         \* the card's bytes, by byte address
    card_before,  \* the card's bytes when the running call started
    card_mode,    \* "idle", "rd", "wr1" (CMD24), "wrN" (CMD25)
    card_ptr,     \* next block the card sends or stores
    bus,          \* what the running call did on the bus, in order
    last_cmd,     \* the last command exchange on the bus
    last_send,    \* the exchanges of the last send_mmc_cmd call, in order
    noresp,       \* some command of the running call got no answer
    rounds,       \* rounds made of the wait loop the call is in
    answers,      \* per command of the running call: its last answer
    last_init     \* outcome of the last mmc_init that ran to its end

vars == << pc, call, ret, calls, now, gpio, cs_asserts, cs_releases,
           g_mmc_cfg, g_block_buf, rc, status, cmd_resp, timeout,
           cmd, res, block_count, block_addr, offset, len, index,
           buf, card, card_before, card_mode, card_ptr,
           bus, last_cmd, last_send, noresp, rounds, answers, last_init >>

initLocals == << rc, status, cmd_resp >>
xferLocals == << cmd, res, block_count, block_addr, offset, len, index >>
cardVars == << card, card_before, card_mode, card_ptr >>
callVars == << call, calls >>
csVars == << gpio, cs_asserts, cs_releases >>

----------------------------------------------------------------------------
(* Byte arrays                                                             *)
(*                                                                         *)
(* The byte arrays of the program (the scratch buffer, the caller's        *)
(* buffer, the blocks of the card) are kept run-length coded: an array is  *)
(* a sequence of runs [s, o, n], run [s, o, n] standing for the n bytes    *)
(* SourceByte(s, o), ..., SourceByte(s, o + n - 1).  ByteAt gives the      *)
(* bytes back.  The sources are the card's original content ("card"), the  *)
(* caller's source buffer of a write ("src"), and constant fills.          *)

\* byte number i of source s
SourceByte(s, i) ==
    IF s = "card" THEN i % 199          \* original card content, by address
    ELSE IF s = "src" THEN 200 + (i % 50)   \* the caller's data of a write
    ELSE IF s = "fill" THEN 238         \* a destination buffer before a read
    ELSE IF s = "ff" THEN 255           \* an idle data line
    ELSE 0                              \* "zero": static storage at start

ConstSources == {"fill", "ff", "zero"}

Run(s, o, n) == [n |-> n, s |-> s, o |-> IF s \in ConstSources THEN 0 ELSE o]

Max(n, m) == IF n > m THEN n ELSE m

\* number of bytes of an array
RECURSIVE RLen(_)
RLen(rs) == IF rs = << >> THEN 0 ELSE rs[1].n + RLen(Tail(rs))

\* index of the first byte of run k
RStart(rs, k) == RLen(SubSeq(rs, 1, k - 1))

\* adjacent runs that continue each other, joined
RECURSIVE Merge(_)
Merge(rs) ==
    IF Len(rs) < 2 THEN rs
    ELSE IF /\ rs[1].s = rs[2].s
            /\ (rs[1].s \in ConstSources \/ rs[1].o + rs[1].n = rs[2].o)
         THEN Merge(<< [rs[1] EXCEPT !.n = rs[1].n + rs[2].n] >>
                        \o SubSeq(rs, 3, Len(rs)))
         ELSE << rs[1] >> \o Merge(Tail(rs))

\* bytes from .. from + cnt - 1 of an array
Slice(rs, from, cnt) ==
    LET piece(k) ==
            LET st == RStart(rs, k)
                lo == Max(st, from)
                hi == Min(st + rs[k].n, from + cnt)
            IN  Run(rs[k].s, rs[k].o + (lo - st), hi - lo)
        IsRun(r) == r.n > 0
    IN  SelectSeq([k \in 1 .. Len(rs) |-> piece(k)], IsRun)

\* byte i of an array (0-based)
ByteAt(rs, i) ==
    LET k == CHOOSE k \in 1 .. Len(rs) :
                 RStart(rs, k) <= i /\ i < RStart(rs, k) + rs[k].n
    IN  SourceByte(rs[k].s, rs[k].o + (i - RStart(rs, k)))

\* a copy that moves the bytes behind dst + di up instead of replacing them
memcpy_insert(dst, di, src, si, amount) ==
    Merge(Slice(dst, 0, di) \o Slice(src, si, amount)
              \o Slice(dst, di, RLen(dst) - di - amount))

\* memcpy(dst + di, src + si, amount)
memcpy(dst, di, src, si, amount) ==
    Merge(Slice(dst, 0, di) \o Slice(src, si, amount)
              \o Slice(dst, di + amount, RLen(dst) - di - amount))

\* content of the card before any write: block b holds the bytes
\* SourceByte("card", a) of its byte addresses a
CardImage == [ b \in 1 .. NumBlocks |->
                 << Run("card", (b - 1) * BLOCK_LEN, BLOCK_LEN) >> ]

\* the commands the driver sends, by index
CmdIds == {CMD0, CMD8, CMD12, CMD17, CMD18, CMD24, CMD25, 41, CMD55, CMD58}

\* a command not sent yet
NoAnswer == [st |-> -1, data |-> << >>]

NoCmd == [ stream |-> RespOk, status |-> 0, cmd |-> 0, frame |-> << >>,
           polls |-> 0 ]

\* static storage and the environment before the first call
InitStorage ==
    /\ call = [len |-> 0, op |-> "none", id |-> 0, addr |-> 0]
    /\ ret = 0
    /\ calls = 0
    /\ now = 0
    /\ gpio = [p \in Pins |-> 1]
    /\ cs_asserts = 0
    /\ cs_releases = 0
    /\ g_mmc_cfg = [spi_num |-> 0, ss_pin |-> 0, spi_cfg |-> "null",
                    settings |-> "null"]
    /\ g_block_buf = << Run("zero", 0, BLOCK_LEN) >>
    /\ rc = 0
    /\ cmd_resp = [i \in 0 .. 3 |-> 0]
    /\ timeout = 0
    /\ cmd = 0
    /\ res = 0
    /\ block_count = 0
    /\ block_addr = 0
    /\ offset = 0
    /\ len = 0
    /\ index = 0
    /\ buf = << >>
    /\ card = CardImage
    /\ card_before = CardImage
    /\ card_mode = "idle"
    /\ card_ptr = 0
    /\ bus = << >>
    /\ last_cmd = NoCmd
    /\ last_send = << >>
    /\ noresp = FALSE
    /\ rounds = 0
    /\ answers = [c \in CmdIds |-> NoAnswer]
    /\ last_init = [ok |-> FALSE, modern |-> FALSE, ccs |-> FALSE]

Init ==
    /\ pc = "idle"
    /\ status = 0
    /\ InitStorage

\* hal_gpio_write(pin, val)
hal_gpio_write(g, pin, val) == [g EXCEPT ![pin] = val]

\* os_time_delay(ticks); ticks are counted as integers, far from the
\* wrap-around of os_time_t
os_time_delay(t, ticks) == t + ticks

\* the first tick not before t at which the caller starts a call
CallTick(t) == ((t + CallPeriod - 1) \div CallPeriod) * CallPeriod

\* what every call does to the model's bookkeeping when it starts
Enter(op, id, addr, length) ==
    /\ pc = "idle"
    /\ calls' = calls + 1
    /\ call' = [len |-> length, op |-> op, id |-> id, addr |-> addr]
    /\ card_before' = card
    /\ noresp' = FALSE
    /\ last_cmd' = NoCmd
    /\ last_send' = << >>
    /\ rounds' = 0
    /\ answers' = [c \in CmdIds |-> NoAnswer]

\* the bookkeeping of one send_mmc_cmd call x whose answer carried the
\* payload bytes `data`, followed on the bus by the events `more`
Log(x, data, more) ==
    /\ bus' = bus \o CmdEvents(x) \o more
    /\ last_cmd' = x[Len(x)]
    /\ last_send' = x
    /\ noresp' = (noresp \/ CmdNoResp(x))
    /\ answers' = [ c \in CmdIds |->
                      IF c = x[Len(x)].cmd
                      THEN [st |-> x[Len(x)].status, data |-> data]
                      ELSE IF c = x[1].cmd
                      THEN [st |-> x[1].status, data |-> << >>]
                      ELSE answers[c] ]

\* the event of `n` bytes read and dropped or stored
Rx(n) == [ev |-> "rx", v |-> n]

----------------------------------------------------------------------------
(* mmc_init                                                                *)

\* lines 195-223: set up the handle and the transport, up to the entry
\* to the power-up delay; chip-select is driven high by hal_gpio_init_out
mmc_init_enter ==
    \E rc_init \in HalRcs, rc_config \in HalRcs :
        /\ Enter("init", 0, 0, 0)
        /\ g_mmc_cfg' = [spi_num |-> 0, ss_pin |-> SsPin, spi_cfg |-> "cfg",
                         settings |-> "mmc_settings"]
        /\ status' = 0
        /\ cmd_resp' = [i \in 0 .. 3 |-> 0]
        /\ timeout' = 0
        /\ cmd' = 0 /\ res' = 0 /\ block_count' = 0 /\ block_addr' = 0
        /\ offset' = 0 /\ len' = 0 /\ index' = 0
        /\ buf' = << >>
        /\ gpio' = hal_gpio_write(gpio, SsPin, 1)
        /\ cs_asserts' = 0
        /\ cs_releases' = 0
        /\ bus' = << >>
        /\ now' = CallTick(now)
        /\ IF rc_init # 0 \/ rc_config # 0
           THEN /\ rc' = IF rc_init # 0 THEN rc_init ELSE rc_config
                /\ ret' = rc'
                /\ pc' = "idle"
           ELSE /\ rc' = rc_config
                /\ ret' = 0
                /\ pc' = "init_powerup"
        /\ UNCHANGED << g_block_buf, card, card_mode, card_ptr, last_init >>

\* lines 223-231: the power-up delay is over: assert chip-select, 75 idle
\* bytes
mmc_init_select ==
    /\ pc = "init_powerup"
    /\ now' = os_time_delay(now, OS_TICKS_PER_SEC \div 100)
    /\ gpio' = hal_gpio_write(gpio, g_mmc_cfg.ss_pin, 0)
    /\ cs_asserts' = cs_asserts + 1
    /\ bus' = bus \o << [ev |-> "idle", v |-> 75] >>
    /\ pc' = "init_cmd0"
    /\ UNCHANGED << rounds, callVars, ret, cs_releases, g_mmc_cfg,
                    g_block_buf, initLocals, timeout, xferLocals, buf,
                    cardVars, last_cmd, last_send, noresp, answers,
                    last_init >>

\* line 237: the card answered CMD0 as an idle card does
Cmd0Idle(st) == st = R_IDLE

\* lines 233-240: CMD0
mmc_init_cmd0 ==
    \E s \in CardResps :
        \E x \in { send_mmc_cmd(CMD0, 0, RespOk, s) } :
            /\ pc = "init_cmd0"
            /\ status' = CmdStatus(x)
            /\ Log(x, << >>, << >>)
            /\ IF ~Cmd0Idle(status')
               THEN /\ rc' = mmc_error_by_status(status')
                    /\ pc' = "init_out"
               ELSE /\ rc' = rc
                    /\ pc' = "init_cmd8"
            /\ UNCHANGED << rounds, callVars, ret, now, csVars, g_mmc_cfg,
                            g_block_buf, cmd_resp, timeout, xferLocals, buf,
                            cardVars, last_init >>

\* lines 272-284 with the two checks in the other order
Cmd8Check_VoltageFirst(resp) ==
    IF resp[2] # 1 THEN MMC_VOLTAGE_ERROR
    ELSE IF resp[3] # 170 THEN MMC_RESPONSE_ERROR
    ELSE MMC_OK

\* lines 272-284: check of the CMD8 echo on the Ver2.00 path; 0 when the echo
\* is accepted
Cmd8Check(resp) ==
    IF resp[3] # 170 THEN MMC_RESPONSE_ERROR
    ELSE IF resp[2] # 1 THEN MMC_VOLTAGE_ERROR
    ELSE MMC_OK

\* lines 248-290: CMD8 and its four payload bytes, the branch on the
\* illegal-command flag, the echo checks and the ACMD41 deadline
mmc_init_cmd8 ==
    \E s \in CardResps, p \in R7Payloads :
        \E x \in { send_mmc_cmd(CMD8, 426, RespOk, s) } :
            /\ pc = "init_cmd8"
            /\ status' = CmdStatus(x)
            /\ BitAnd(s.b, R_ILLEGAL_COMMAND) # 0 => p = << 255, 255, 255, 255 >>
            /\ cmd_resp' = [i \in 0 .. 3 |-> p[i + 1]]
            /\ Log(x, p, << Rx(4) >>)
            /\ IF BitAnd(status', R_ILLEGAL_COMMAND) # 0
               THEN /\ pc' = "init_legacy"
                    /\ UNCHANGED << rc, timeout >>
               ELSE IF Cmd8Check(cmd_resp') # MMC_OK
               THEN /\ rc' = Cmd8Check(cmd_resp')
                    /\ pc' = "init_out"
                    /\ UNCHANGED timeout
               ELSE /\ timeout' = now + OS_TICKS_PER_SEC
                    /\ pc' = "init_acmd41"
                    /\ UNCHANGED rc
            /\ rounds' = 0
            /\ UNCHANGED << callVars, ret, now, csVars, g_mmc_cfg,
                            g_block_buf, xferLocals, buf, cardVars,
                            last_init >>

\* lines 254-264: Ver1.x path, CMD58 with its result unused
mmc_init_legacy ==
    \E s \in OcrResps :
        \E x \in { send_mmc_cmd(CMD58, 0, RespOk, s) } :
            /\ pc = "init_legacy"
            /\ Log(x, << >>, << >>)
            /\ pc' = "init_out"
            /\ UNCHANGED << rounds, callVars, ret, now, csVars, g_mmc_cfg,
                            g_block_buf, initLocals, timeout, xferLocals,
                            buf, cardVars, last_init >>

\* line 293 without the deadline test
Acmd41Exit_NoDeadline(st, t, deadline) == BitAnd(st, R_IDLE) = 0

\* line 293: exit condition of the ACMD41 loop
Acmd41Exit(st, t, deadline) == BitAnd(st, R_IDLE) = 0 \/ t > deadline

\* lines 291-302: one round of the ACMD41 loop and, when the loop is left,
\* the check of the final status
mmc_init_acmd41 ==
    \E s55 \in Resps55, s \in Acmd41Resps :
        \E x \in { send_mmc_cmd(ACMD41, HCS, s55, s) } :
            /\ pc = "init_acmd41"
            /\ BitAnd(s.b, R_IDLE) = 0 => rounds < MaxIdleRounds
            /\ rounds' = rounds + 1
            /\ status' = CmdStatus(x)
            /\ Log(x, << >>, << >>)
            /\ IF Acmd41Exit(status', now, timeout)
               THEN /\ now' = now
                    /\ IF status' # 0
                       THEN /\ rc' = mmc_error_by_status(status')
                            /\ pc' = "init_out"
                       ELSE /\ rc' = rc
                            /\ pc' = "init_cmd58"
               ELSE /\ now' = os_time_delay(now, OS_TICKS_PER_SEC \div 10)
                    /\ rc' = rc
                    /\ pc' = "init_acmd41"
            /\ UNCHANGED << callVars, ret, csVars, g_mmc_cfg, g_block_buf,
                            cmd_resp, timeout, xferLocals, buf, cardVars,
                            last_init >>

\* lines 308-317: CMD58 and the OCR payload; the CCS branch is empty
mmc_init_cmd58 ==
    \E s \in OcrResps, p \in R3Payloads :
        \E x \in { send_mmc_cmd(CMD58, 0, RespOk, s) } :
            /\ pc = "init_cmd58"
            /\ status' = CmdStatus(x)
            /\ cmd_resp' = [i \in 0 .. 3 |-> p[i + 1]]
            /\ Log(x, p, << Rx(4) >>)
            /\ pc' = "init_out"
            /\ UNCHANGED << rounds, callVars, ret, now, csVars, g_mmc_cfg,
                            g_block_buf, rc, timeout, xferLocals, buf,
                            cardVars, last_init >>

\* the call sent command number c
Sent(c) == \E i \in 1 .. Len(bus) : bus[i] = [ev |-> "cmd", v |-> c]

\* lines 328-330: release chip-select and return rc
mmc_init_out ==
    /\ pc = "init_out"
    /\ gpio' = hal_gpio_write(gpio, g_mmc_cfg.ss_pin, 1)
    /\ cs_releases' = cs_releases + 1
    /\ ret' = rc
    /\ pc' = "idle"
    /\ last_init' = IF rc = 0 /\ Sent(41)
                     THEN [ok |-> TRUE, modern |-> TRUE,
                           ccs |-> BitAnd(cmd_resp[0], 64) # 0]
                     ELSE [ok |-> rc = 0, modern |-> FALSE, ccs |-> FALSE]
    /\ UNCHANGED << rounds, callVars, now, cs_asserts, g_mmc_cfg, g_block_buf,
                    initLocals, timeout, xferLocals, buf, cardVars, bus,
                    last_cmd, last_send, noresp, answers >>

----------------------------------------------------------------------------
(* The card's data side                                                    *)

\* the 512 bytes of block b of card image c (0xFF past the end of the card)
CardBlock(c, b) ==
    IF b < Len(c) THEN c[b + 1] ELSE << Run("ff", 0, BLOCK_LEN) >>

\* card image c with block b replaced by the 512 bytes blk
CardStore(c, b, blk) == [c EXCEPT ![b + 1] = blk]

\* the byte at byte address a of card image c
CardByte(c, a) == ByteAt(CardBlock(c, a \div BLOCK_LEN), a % BLOCK_LEN)

\* the card's transfer state after it answered command c (argument arg, a
\* block index) with status st
CardModeAfter(c, st) ==
    IF st # 0 THEN "idle"
    ELSE IF c \in {CMD17, CMD18} THEN "rd"
    ELSE IF c = CMD24 THEN "wr1"
    ELSE IF c = CMD25 THEN "wrN"
    ELSE "idle"

\* the card is taking data blocks and has room for the next one
CardReceiving == card_mode \in {"wr1", "wrN"} /\ card_ptr < NumBlocks

\* how long the card keeps the line busy (zero bytes) after a write:
\* `after` polls, or for ever
BusyBehaviours ==
    { [release |-> TRUE, after |-> k] : k \in 0 .. MaxBusyPolls }
        \cup { [release |-> FALSE, after |-> 0] }

----------------------------------------------------------------------------
(* Pieces shared by mmc_read and mmc_write                                 *)

\* mmc_cfg_dev without the test of line 109
mmc_cfg_dev_any(id) == TRUE

\* mmc_cfg_dev(id): TRUE when the slot has a handle (NULL otherwise)
mmc_cfg_dev(id) == id = 0

\* lines 356-357, 450-451: number of blocks of the transfer
BlockCount(length) ==
    (((length + BLOCK_LEN - 1) \div BLOCK_LEN) * BLOCK_LEN) \div BLOCK_LEN

\* lines 358, 452: block index of a byte address
BlockAddr(addr) == addr \div BLOCK_LEN

\* lines 359, 453: offset of a byte address in its block
Offset(addr) == addr - BlockAddr(addr) * BLOCK_LEN

\* lines 402, 517 without the offset: MIN(BLOCK_LEN, len)
Amount_NoOffset(off, length) == Min(BLOCK_LEN, length)

\* lines 402, 517: bytes copied in one round of the block loop
Amount(off, length) == Min(BLOCK_LEN - off, length)

\* line 366: the read command
ReadCmd(count) == IF count = 1 THEN CMD17 ELSE CMD18

\* line 494: the write command
WriteCmd(count) == IF count = 1 THEN CMD24 ELSE CMD25

\* the wait loops without the test of the deadline: "while (1)"
WaitOver_Never(t, deadline) == FALSE

\* lines 382, 478, 564: "while (os_time_get() < timeout)" leaves the loop
WaitOver(t, deadline) == ~(t < deadline)

\* return from a call that holds chip-select: release it and give value v
ReleaseAndReturn(v) ==
    /\ gpio' = hal_gpio_write(gpio, g_mmc_cfg.ss_pin, 1)
    /\ cs_releases' = cs_releases + 1
    /\ cs_asserts' = cs_asserts
    /\ ret' = v
    /\ pc' = "idle"

----------------------------------------------------------------------------
(* mmc_read                                                                *)

\* lines 351-364: look the device up, compute the block span, assert
\* chip-select
mmc_read_enter ==
    \E id \in SlotIds, a \in XferArgs :
        /\ Enter("read", id, a[1], a[2])
        /\ now' = CallTick(now)
        /\ rc' = 0 /\ status' = 0 /\ cmd_resp' = [i \in 0 .. 3 |-> 0]
        /\ timeout' = 0 /\ cmd' = 0 /\ res' = 0 /\ index' = 0
        /\ buf' = IF a[2] = 0 THEN << >> ELSE << Run("fill", 0, a[2]) >>
        /\ bus' = << >>
        /\ cs_releases' = 0
        /\ IF ~mmc_cfg_dev(id)
           THEN /\ ret' = MMC_DEVICE_ERROR
                /\ pc' = "idle"
                /\ block_count' = 0 /\ block_addr' = 0
                /\ offset' = 0 /\ len' = 0
                /\ cs_asserts' = 0
                /\ gpio' = gpio
           ELSE /\ ret' = 0
                /\ pc' = "read_cmd"
                /\ block_count' = BlockCount(a[2])
                /\ block_addr' = BlockAddr(a[1])
                /\ offset' = Offset(a[1])
                /\ len' = a[2]
                /\ cs_asserts' = 1
                /\ gpio' = hal_gpio_write(gpio, g_mmc_cfg.ss_pin, 0)
        /\ UNCHANGED << g_mmc_cfg, g_block_buf, card, card_mode, card_ptr,
                        last_init >>

\* lines 366-377: send the read command; on a non-zero status release
\* chip-select and return MMC_CARD_ERROR, else set the token deadline
mmc_read_cmd ==
    \E s \in XferResps :
        \E x \in { send_mmc_cmd(ReadCmd(block_count), block_addr, RespOk, s) } :
            /\ pc = "read_cmd"
            /\ cmd' = ReadCmd(block_count)
            /\ res' = CmdStatus(x)
            /\ Log(x, << >>, << >>)
            /\ card_mode' = CardModeAfter(cmd', res')
            /\ card_ptr' = block_addr
            /\ IF res' # MMC_OK
               THEN /\ ReleaseAndReturn(MMC_CARD_ERROR)
                    /\ UNCHANGED timeout
               ELSE /\ timeout' = now + OS_TICKS_PER_SEC \div 5
                    /\ pc' = "read_token"
                    /\ UNCHANGED << ret, csVars >>
            /\ rounds' = 0
            /\ UNCHANGED << callVars, now, g_mmc_cfg, g_block_buf,
                            initLocals, block_count, block_addr, offset,
                            len, index, buf, card, card_before, last_init >>

\* lines 378-380, 384-387: one poll of the wait for the start token: a
\* byte other than 0xFF ends the wait and the token is checked, 0xFF sends
\* the caller to sleep
mmc_read_token ==
    \E b \in TokenBytes :
        /\ pc = "read_token"
        /\ b # 255 => rounds < MaxTokenPolls
        /\ rounds' = rounds + 1
        /\ res' = b
        /\ index' = 0
        /\ pc' = IF b = 255 THEN "read_token_sleep"
                 ELSE IF b = 254 THEN "read_block"
                 ELSE "read_fail"
        /\ bus' = IF b = 255 THEN bus
                  ELSE bus \o << [ev |-> "token", v |-> b] >>
        /\ UNCHANGED << callVars, ret, now, csVars, g_mmc_cfg, g_block_buf,
                        initLocals, timeout, cmd, block_count, block_addr,
                        offset, len, buf, cardVars, last_cmd, last_send,
                        noresp, answers, last_init >>

\* lines 381-387: os_time_delay(TPS / 20) returns and the deadline is
\* tested: the wait goes on, or it ends with res = 0xFF
mmc_read_token_wake ==
    /\ pc = "read_token_sleep"
    /\ now' = os_time_delay(now, OS_TICKS_PER_SEC \div 20)
    /\ IF WaitOver(now', timeout)
       THEN /\ pc' = "read_fail"
            /\ bus' = bus \o << [ev |-> "token", v |-> res] >>
       ELSE /\ pc' = "read_token"
            /\ bus' = bus
    /\ UNCHANGED << rounds, callVars, ret, csVars, g_mmc_cfg, g_block_buf,
                    initLocals, timeout, xferLocals, buf, cardVars,
                    last_cmd, last_send, noresp, answers, last_init >>

\* lines 389-410: one round of the block loop: 512 bytes into the scratch
\* buffer, two CRC bytes dropped, `amount` bytes copied to the caller
mmc_read_block ==
    /\ pc = "read_block"
    /\ block_count # 0
    /\ block_count' = block_count - 1
    /\ g_block_buf' = CardBlock(card, card_ptr)
    /\ card_ptr' = card_ptr + 1
    /\ buf' = memcpy(buf, index, g_block_buf', offset, Amount(offset, len))
    /\ offset' = 0
    /\ len' = len - Amount(offset, len)
    /\ index' = index + Amount(offset, len)
    /\ bus' = bus \o << Rx(BLOCK_LEN), Rx(2) >>
    /\ UNCHANGED << rounds, callVars, ret, now, csVars, g_mmc_cfg, initLocals,
                    timeout, cmd, res, block_addr, card, card_before,
                    card_mode, last_cmd, last_send, noresp, answers, last_init, pc >>

\* lines 412-418: after the block loop: CMD12 after a multi-block read,
\* release chip-select, return MMC_OK
mmc_read_end ==
    \E s \in OcrResps :
        \E x \in { IF cmd = CMD18 THEN send_mmc_cmd(CMD12, 0, RespOk, s)
                   ELSE << >> } :
            /\ pc = "read_block"
            /\ block_count = 0
            /\ cmd # CMD18 => s = RespOk
            /\ IF cmd = CMD18
               THEN /\ Log(x, << >>, << >>)
                    /\ card_mode' = "idle"
               ELSE UNCHANGED << bus, last_cmd, last_send, noresp, answers, card_mode >>
            /\ ReleaseAndReturn(MMC_OK)
            /\ UNCHANGED << rounds, callVars, now, g_mmc_cfg, g_block_buf,
                            initLocals, timeout, xferLocals, buf, card,
                            card_before, card_ptr, last_init >>

\* mmc_read_fail without line 421: returns with chip-select still asserted
mmc_read_fail_held ==
    /\ pc = "read_fail"
    /\ ret' = MMC_CARD_ERROR
    /\ pc' = "idle"
    /\ UNCHANGED << rounds, callVars, now, csVars, g_mmc_cfg, g_block_buf,
                    initLocals, timeout, xferLocals, buf, cardVars, bus,
                    last_cmd, last_send, noresp, answers, last_init >>

\* lines 421-423: no start token: release chip-select, return
\* MMC_CARD_ERROR
mmc_read_fail ==
    /\ pc = "read_fail"
    /\ ReleaseAndReturn(MMC_CARD_ERROR)
    /\ UNCHANGED << rounds, callVars, now, g_mmc_cfg, g_block_buf, initLocals,
                    timeout, xferLocals, buf, cardVars, bus, last_cmd, last_send,
                    noresp, answers, last_init >>

----------------------------------------------------------------------------
(* mmc_write                                                               *)

\* lines 445-455: look the device up, compute the block span, assert
\* chip-select; line 465: the branch on the offset
mmc_write_enter ==
    \E id \in SlotIds, a \in XferArgs :
        /\ Enter("write", id, a[1], a[2])
        /\ now' = CallTick(now)
        /\ rc' = 0 /\ status' = 0 /\ cmd_resp' = [i \in 0 .. 3 |-> 0]
        /\ timeout' = 0 /\ cmd' = 0 /\ res' = 0 /\ index' = 0
        /\ buf' = IF a[2] = 0 THEN << >> ELSE << Run("src", 0, a[2]) >>
        /\ bus' = << >>
        /\ cs_releases' = 0
        /\ IF ~mmc_cfg_dev(id)
           THEN /\ ret' = MMC_DEVICE_ERROR
                /\ pc' = "idle"
                /\ block_count' = 0 /\ block_addr' = 0
                /\ offset' = 0 /\ len' = 0
                /\ cs_asserts' = 0
                /\ gpio' = gpio
           ELSE /\ ret' = 0
                /\ pc' = IF Offset(a[1]) # 0 THEN "write_pre_cmd"
                         ELSE "write_cmd"
                /\ block_count' = BlockCount(a[2])
                /\ block_addr' = BlockAddr(a[1])
                /\ offset' = Offset(a[1])
                /\ len' = a[2]
                /\ cs_asserts' = 1
                /\ gpio' = hal_gpio_write(gpio, g_mmc_cfg.ss_pin, 0)
        /\ UNCHANGED << g_mmc_cfg, g_block_buf, card, card_mode, card_ptr,
                        last_init >>

\* lines 466-472: the pre-read's CMD17; on a non-zero status release
\* chip-select and return MMC_CARD_ERROR, else set the token deadline
mmc_write_pre_cmd ==
    \E s \in XferResps :
        \E x \in { send_mmc_cmd(CMD17, block_addr, RespOk, s) } :
            /\ pc = "write_pre_cmd"
            /\ res' = CmdStatus(x)
            /\ Log(x, << >>, << >>)
            /\ card_mode' = CardModeAfter(CMD17, res')
            /\ card_ptr' = block_addr
            /\ IF res' # MMC_OK
               THEN /\ ReleaseAndReturn(MMC_CARD_ERROR)
                    /\ UNCHANGED timeout
               ELSE /\ timeout' = now + OS_TICKS_PER_SEC \div 5
                    /\ pc' = "write_pre_token"
                    /\ UNCHANGED << ret, csVars >>
            /\ rounds' = 0
            /\ UNCHANGED << callVars, now, g_mmc_cfg, g_block_buf,
                            initLocals, cmd, block_count, block_addr,
                            offset, len, index, buf, card, card_before,
                            last_init >>

\* lines 473-482 without the check of the token at lines 479-482
mmc_write_pre_token_lax ==
    \E b \in TokenBytes :
        /\ pc = "write_pre_token"
        /\ b # 255 => rounds < MaxTokenPolls
        /\ rounds' = rounds + 1
        /\ res' = b
        /\ bus' = IF b = 255 THEN bus
                  ELSE bus \o << [ev |-> "token", v |-> b] >>
        /\ pc' = IF b = 255 THEN "write_pre_sleep" ELSE "write_pre_block"
        /\ UNCHANGED << callVars, ret, now, csVars, g_mmc_cfg, g_block_buf,
                        initLocals, timeout, cmd, block_count, block_addr,
                        offset, len, index, buf, cardVars, last_cmd,
                        last_send, noresp, answers, last_init >>

\* lines 473-475, 479-482: one poll of the pre-read's wait for the start
\* token: a byte other than 0xFF ends the wait and the token is checked
\* (not 0xFE: release chip-select, return MMC_CARD_ERROR), 0xFF sends the
\* caller to sleep
mmc_write_pre_token ==
    \E b \in TokenBytes :
        /\ pc = "write_pre_token"
        /\ b # 255 => rounds < MaxTokenPolls
        /\ rounds' = rounds + 1
        /\ res' = b
        /\ bus' = IF b = 255 THEN bus
                  ELSE bus \o << [ev |-> "token", v |-> b] >>
        /\ IF b = 255
           THEN /\ pc' = "write_pre_sleep"
                /\ UNCHANGED << ret, csVars >>
           ELSE IF b # 254
           THEN ReleaseAndReturn(MMC_CARD_ERROR)
           ELSE /\ pc' = "write_pre_block"
                /\ UNCHANGED << ret, csVars >>
        /\ UNCHANGED << callVars, now, g_mmc_cfg, g_block_buf, initLocals,
                        timeout, cmd, block_count, block_addr, offset,
                        len, index, buf, cardVars, last_cmd, last_send,
                        noresp, answers, last_init >>

\* lines 476-482: os_time_delay(TPS / 20) returns and the deadline is
\* tested: the wait goes on, or it ends with res = 0xFF, chip-select is
\* released and MMC_CARD_ERROR returned
mmc_write_pre_wake ==
    /\ pc = "write_pre_sleep"
    /\ now' = os_time_delay(now, OS_TICKS_PER_SEC \div 20)
    /\ IF WaitOver(now', timeout)
       THEN /\ bus' = bus \o << [ev |-> "token", v |-> res] >>
            /\ ReleaseAndReturn(MMC_CARD_ERROR)
       ELSE /\ pc' = "write_pre_token"
            /\ UNCHANGED << ret, csVars, bus >>
    /\ UNCHANGED << rounds, callVars, g_mmc_cfg, g_block_buf, initLocals,
                    timeout, xferLocals, buf, cardVars, last_cmd,
                    last_send, noresp, answers, last_init >>

\* lines 484-489: the pre-read's 512 bytes into the scratch buffer, two
\* CRC bytes dropped
mmc_write_pre_block ==
    /\ pc = "write_pre_block"
    /\ g_block_buf' = CardBlock(card, card_ptr)
    /\ card_ptr' = card_ptr + 1
    /\ card_mode' = "idle"
    /\ bus' = bus \o << Rx(BLOCK_LEN), Rx(2) >>
    /\ pc' = "write_cmd"
    /\ UNCHANGED << rounds, callVars, ret, now, csVars, g_mmc_cfg, initLocals,
                    timeout, xferLocals, buf, card, card_before, last_cmd, last_send,
                    noresp, answers, last_init >>

\* lines 494-504: send the write command; on a non-zero status release
\* chip-select and return MMC_CARD_ERROR, else one gap byte
mmc_write_cmd ==
    \E s \in XferResps :
        \E x \in { send_mmc_cmd(WriteCmd(block_count), block_addr, RespOk, s) } :
            /\ pc = "write_cmd"
            /\ cmd' = WriteCmd(block_count)
            /\ res' = CmdStatus(x)
            /\ Log(x, << >>, IF res' # MMC_OK THEN << >>
                             ELSE << [ev |-> "tx", v |-> 255] >>)
            /\ card_mode' = CardModeAfter(cmd', res')
            /\ card_ptr' = block_addr
            /\ index' = 0
            /\ IF res' # MMC_OK
               THEN ReleaseAndReturn(MMC_CARD_ERROR)
               ELSE /\ pc' = "write_block"
                    /\ UNCHANGED << ret, csVars >>
            /\ UNCHANGED << rounds, callVars, now, g_mmc_cfg, g_block_buf,
                            initLocals, timeout, block_count, block_addr,
                            offset, len, buf, card, card_before,
                            last_init >>

\* lines 511-515: the start token of a data block
StartToken(c) == IF c = CMD24 THEN 254 ELSE 252

\* line 532 taking the CRC-error token for an accepted block as well
Accepted_CrcToo(token) == BitAnd(token, 31) \in {5, 11}

\* line 532: the data-response token says the block was accepted
Accepted(token) == BitAnd(token, 31) = 5

\* lines 505-540: one round of the block loop: start token, `amount` bytes
\* of the caller into the scratch buffer, the 512 scratch bytes and two CRC
\* bytes out, the data-response token in.  A card that is taking blocks
\* stores the block when it answers "accepted"; a card that is not keeps
\* the line idle.
mmc_write_block ==
    \E token \in DataRespBytes :
        /\ pc = "write_block"
        /\ ~CardReceiving => token = 255
        /\ g_block_buf' = memcpy(g_block_buf, offset, buf, index,
                                 Amount(offset, len))
        /\ res' = token
        /\ bus' = bus \o << [ev |-> "tx", v |-> StartToken(cmd)],
                            [ev |-> "tx", v |-> BLOCK_LEN],
                            [ev |-> "tx", v |-> 2],
                            [ev |-> "dresp", v |-> token] >>
        /\ IF CardReceiving /\ Accepted(token)
           THEN /\ card' = CardStore(card, card_ptr, g_block_buf')
                /\ card_ptr' = card_ptr + 1
                /\ card_mode' = IF card_mode = "wr1" THEN "idle" ELSE card_mode
           ELSE UNCHANGED << card, card_ptr, card_mode >>
        /\ IF ~Accepted(res')
           THEN /\ pc' = "write_done"
                /\ UNCHANGED << offset, len, index >>
           ELSE /\ offset' = 0
                /\ len' = len - Amount(offset, len)
                /\ index' = index + Amount(offset, len)
                /\ pc' = IF len' # 0 THEN "write_block" ELSE "write_done"
        /\ UNCHANGED << rounds, callVars, ret, now, csVars, g_mmc_cfg, initLocals,
                        timeout, cmd, block_count, block_addr, buf,
                        card_before, last_cmd, last_send, noresp, answers, last_init >>

\* lines 546-557 without the mask of line 546
WriteStatus_NoMask(token) ==
    IF token = 5 THEN MMC_OK
    ELSE IF token = 11 THEN MMC_CRC_ERROR
    ELSE MMC_WRITE_ERROR

\* lines 546-557: the value mmc_write returns for the last data-response
\* token
WriteStatus(token) ==
    IF BitAnd(token, 31) = 5 THEN MMC_OK
    ELSE IF BitAnd(token, 31) = 11 THEN MMC_CRC_ERROR
    ELSE MMC_WRITE_ERROR

\* lines 559-564: the busy wait "do { res = rx; if (res) break;
\* os_time_delay(d); } while (os_time_get() < timeout)" entered at tick t
\* with the card behaving as b: the number of polls made, the tick at loop
\* exit and the last byte received
BusyWait(t, deadline, d, b) ==
    LET \* most after which the while test fails: the least m >= 1 with
        \* t + m * d >= deadline
        most == IF deadline - t <= d THEN 1
                  ELSE (deadline - t + d - 1) \div d
    IN  IF b.release /\ b.after < most
        THEN [polls |-> b.after + 1, now |-> t + b.after * d, res |-> 255]
        ELSE [polls |-> most, now |-> t + most * d, res |-> 0]

\* lines 546-559: mask and classify the last data-response token and set
\* the deadline of the busy wait
mmc_write_classify ==
    /\ pc = "write_done"
    /\ res' = BitAnd(res, 31)
    /\ status' = WriteStatus(res)
    /\ timeout' = now + 5 * OS_TICKS_PER_SEC
    /\ rounds' = 0
    /\ pc' = "write_busy"
    /\ UNCHANGED << callVars, ret, now, csVars, g_mmc_cfg, g_block_buf, rc,
                    cmd_resp, cmd, block_count, block_addr, offset, len,
                    index, buf, cardVars, bus, last_cmd, last_send, noresp,
                    answers, last_init >>

\* lines 561-562, 566-568: one poll of the busy wait: a non-zero byte
\* ends the wait, chip-select is released and the classification
\* returned; a zero byte sends the caller to sleep.  The card releases the
\* line (0xFF) after at most MaxBusyPolls zero bytes or never, and it holds
\* the line for ever in the first MaxHungCalls calls only.
mmc_write_busy ==
    \E b \in {0, 255} :
        /\ pc = "write_busy"
        /\ b # 0 => rounds <= MaxBusyPolls
        /\ b = 0 /\ rounds >= MaxBusyPolls => calls <= MaxHungCalls
        /\ rounds' = rounds + 1
        /\ res' = b
        /\ IF b = 0
           THEN /\ pc' = "write_busy_sleep"
                /\ UNCHANGED << ret, csVars, bus, card_mode >>
           ELSE /\ bus' = bus \o << [ev |-> "busy", v |-> rounds'] >>
                /\ card_mode' = "idle"
                /\ ReleaseAndReturn(status)
        /\ UNCHANGED << callVars, now, g_mmc_cfg, g_block_buf, initLocals,
                        timeout, cmd, block_count, block_addr, offset, len,
                        index, buf, card, card_before, card_ptr, last_cmd,
                        last_send, noresp, answers, last_init >>

\* lines 563-568: os_time_delay(TPS / 100) returns and the deadline is
\* tested: the wait goes on, or chip-select is released and the
\* classification returned
mmc_write_busy_wake ==
    /\ pc = "write_busy_sleep"
    /\ now' = os_time_delay(now, OS_TICKS_PER_SEC \div 100)
    /\ IF WaitOver(now', timeout)
       THEN /\ bus' = bus \o << [ev |-> "busy", v |-> rounds] >>
            /\ card_mode' = "idle"
            /\ ReleaseAndReturn(status)
       ELSE /\ pc' = "write_busy"
            /\ UNCHANGED << ret, csVars, bus, card_mode >>
    /\ UNCHANGED << rounds, callVars, g_mmc_cfg, g_block_buf, initLocals,
                    timeout, xferLocals, buf, card, card_before, card_ptr,
                    last_cmd, last_send, noresp, answers, last_init >>

----------------------------------------------------------------------------
(* Any calls of mmc_init, mmc_read and mmc_write, one after the other      *)

\* the caller makes MaxCalls calls at most
init_call == mmc_init_enter /\ calls < MaxCalls

read_call == mmc_read_enter /\ calls < MaxCalls

write_call == mmc_write_enter /\ calls < MaxCalls

Next ==
    \/ init_call
    \/ mmc_init_select
    \/ mmc_init_cmd0
    \/ mmc_init_cmd8
    \/ mmc_init_legacy
    \/ mmc_init_acmd41
    \/ mmc_init_cmd58
    \/ mmc_init_out
    \/ read_call
    \/ mmc_read_cmd
    \/ mmc_read_token
    \/ mmc_read_token_wake
    \/ mmc_read_block
    \/ mmc_read_end
    \/ mmc_read_fail
    \/ write_call
    \/ mmc_write_pre_cmd
    \/ mmc_write_pre_token
    \/ mmc_write_pre_wake
    \/ mmc_write_pre_block
    \/ mmc_write_cmd
    \/ mmc_write_block
    \/ mmc_write_classify
    \/ mmc_write_busy
    \/ mmc_write_busy_wake

Spec == Init /\ [][Next]_vars

----------------------------------------------------------------------------
(* mmc_init alone, run to its end                                          *)

NextInit ==
    \/ init_call
    \/ mmc_init_select
    \/ mmc_init_cmd0
    \/ mmc_init_cmd8
    \/ mmc_init_legacy
    \/ mmc_init_acmd41
    \/ mmc_init_cmd58
    \/ mmc_init_out

\* a step of a running mmc_init: the function runs on once it was called,
\* and os_time_delay returns
InitStep ==
    \/ mmc_init_select
    \/ mmc_init_cmd0
    \/ mmc_init_cmd8
    \/ mmc_init_legacy
    \/ mmc_init_acmd41
    \/ mmc_init_cmd58
    \/ mmc_init_out

SpecInitLive == Init /\ [][NextInit]_vars /\ WF_vars(InitStep)

----------------------------------------------------------------------------
(* mmc_error_by_status alone, on every status byte                         *)

InitClassify ==
    /\ pc = "classify"
    /\ status \in Byte
    /\ InitStorage

\* rc = mmc_error_by_status(status)
Classify ==
    /\ pc = "classify"
    /\ rc' = mmc_error_by_status(status)
    /\ pc' = "classified"
    /\ UNCHANGED << call, ret, calls, now, gpio, cs_asserts, cs_releases,
                    g_mmc_cfg, g_block_buf, status, cmd_resp, timeout,
                    cmd, res, block_count, block_addr, offset, len, index,
                    buf, card, card_before, card_mode, card_ptr,
                    bus, last_cmd, last_send, noresp, rounds, answers, last_init >>

NextClassify == Classify

SpecClassify == InitClassify /\ [][NextClassify]_vars

----------------------------------------------------------------------------
(* send_mmc_cmd alone, on every command, payload and card behaviour        *)

\* the commands and the payloads send_mmc_cmd is called with
SendCmds == {CMD0, CMD8, CMD12, CMD17, CMD18, CMD24, CMD25, CMD58, ACMD41}
SendPayloads == {0, 1, 426, HCS, 2^30 + 2^29 + 511}

InitSendCmd ==
    /\ pc = "send"
    /\ status = 0
    /\ InitStorage

\* status = send_mmc_cmd(mmc, cmd, block_addr)
SendCmd ==
    \E c \in SendCmds, payload \in SendPayloads,
       s55 \in PollStreams, s \in PollStreams :
        \E x \in { send_mmc_cmd(c, payload, s55, s) } :
            /\ pc = "send"
            /\ BitAnd(c, 128) = 0 => s55 = RespOk
            /\ cmd' = c
            /\ block_addr' = payload
            /\ status' = CmdStatus(x)
            /\ Log(x, << >>, << >>)
            /\ pc' = "sent"
            /\ UNCHANGED << call, ret, calls, now, gpio, cs_asserts,
                            cs_releases, g_mmc_cfg, g_block_buf, rc,
                            cmd_resp, timeout, res, block_count, offset,
                            len, index, buf, card, card_before, card_mode,
                            card_ptr, rounds, last_init >>

NextSendCmd == SendCmd

SpecSendCmd == InitSendCmd /\ [][NextSendCmd]_vars

----------------------------------------------------------------------------
(* The same mmc_write made again, and the range read back                 *)

\* the call that returned last was an mmc_write that returned MMC_OK, and
\* the call that starts now has its slot, byte address and length
SameRange ==
    /\ call.op = "write"
    /\ ret = MMC_OK
    /\ call'.id = call.id
    /\ call'.addr = call.addr
    /\ call'.len = call.len

\* the write, and the same write again, MaxRepeatCalls calls at most
write_again ==
    mmc_write_enter /\ calls < MaxRepeatCalls /\ (calls > 0 => SameRange)

\* the read of the range that was written once or more than once
read_back ==
    mmc_read_enter /\ calls > 0 /\ calls < MaxRepeatCalls /\ SameRange

NextWriteTwice ==
    \/ write_again
    \/ read_back
    \/ mmc_read_cmd
    \/ mmc_read_token
    \/ mmc_read_token_wake
    \/ mmc_read_block
    \/ mmc_read_end
    \/ mmc_read_fail
    \/ mmc_write_pre_cmd
    \/ mmc_write_pre_token
    \/ mmc_write_pre_wake
    \/ mmc_write_pre_block
    \/ mmc_write_cmd
    \/ mmc_write_block
    \/ mmc_write_classify
    \/ mmc_write_busy
    \/ mmc_write_busy_wake

SpecWriteTwice == Init /\ [][NextWriteTwice]_vars

----------------------------------------------------------------------------
(* One mmc_read or mmc_write run to its end                                 *)

read_once == mmc_read_enter /\ calls = 0

write_once == mmc_write_enter /\ calls = 0

\* the steps of a running mmc_read or mmc_write
XferStep ==
    \/ mmc_read_cmd
    \/ mmc_read_token
    \/ mmc_read_token_wake
    \/ mmc_read_block
    \/ mmc_read_end
    \/ mmc_read_fail
    \/ mmc_write_pre_cmd
    \/ mmc_write_pre_token
    \/ mmc_write_pre_wake
    \/ mmc_write_pre_block
    \/ mmc_write_cmd
    \/ mmc_write_block
    \/ mmc_write_classify
    \/ mmc_write_busy
    \/ mmc_write_busy_wake

NextXfer ==
    \/ read_once
    \/ write_once
    \/ XferStep

\* a call that was started runs on: every sleep returns and every SPI
\* exchange completes
SpecXferLive == Init /\ [][NextXfer]_vars /\ WF_vars(XferStep)

----------------------------------------------------------------------------
(* Properties                                                              *)

\* a call of `op` has returned
Returned(op) == pc = "idle" /\ call.op = op

\* C1: chip-select is high whenever no call is running, that is at the
\* moment each call returns and between calls, whatever the card did and
\* whatever the call returns; a call that asserted chip-select has released
\* it exactly once when it returns, and not before (mmc_init asserts it
\* after its power-up delay).
C1_ChipSelectReleased ==
    /\ pc = "idle" => /\ \A p \in Pins : gpio[p] = 1
                      /\ cs_asserts \in {0, 1}
                      /\ cs_releases = cs_asserts
    /\ pc = "init_powerup" => /\ gpio[g_mmc_cfg.ss_pin] = 1
                              /\ cs_asserts = 0
                              /\ cs_releases = 0
    /\ pc \notin {"idle", "init_powerup"} => /\ gpio[g_mmc_cfg.ss_pin] = 0
                                             /\ cs_asserts = 1
                                             /\ cs_releases = 0

\* a write that failed after it asserted chip-select has returned, with
\* chip-select released once
C1_Witness ==
    /\ Returned("write")
    /\ ret = MMC_CARD_ERROR
    /\ calls = 2
    /\ cs_asserts = 1
    /\ cs_releases = 1
    /\ gpio[g_mmc_cfg.ss_pin] = 1

\* the bytes first .. first + n - 1 of the card are what they were when the
\* running call started
Preserved(first, n) ==
    \A a \in first .. first + n - 1 :
        CardByte(card, a) = CardByte(card_before, a)

\* C2: whenever mmc_read returns MMC_OK, the destination buffer holds the
\* `length` card bytes of [byte_address, byte_address + length), for every
\* byte_address and length.
C2_ReadDeliversRange ==
    Returned("read") /\ ret = MMC_OK =>
        \A i \in 0 .. call.len - 1 :
            ByteAt(buf, i) = CardByte(card, call.addr + i)

\* C3: after an mmc_write to a byte_address that is not a multiple of 512
\* which returned MMC_OK, every card byte in a block touched by the write
\* and outside [byte_address, byte_address + length) is what it was before
\* the write: the head of the first block and the tail of the last block.
C3_WritePreservesOutside ==
    Returned("write") /\ ret = MMC_OK /\ call.addr % BLOCK_LEN # 0
                      /\ call.len > 0 =>
        LET first == BlockAddr(call.addr) * BLOCK_LEN
            stop == call.addr + call.len
            last == (BlockAddr(stop - 1) + 1) * BLOCK_LEN
        IN  /\ Preserved(first, call.addr - first)
            /\ Preserved(stop, last - stop)

\* C4: if the card's status for CMD0 is anything but 0x01, mmc_init returns
\* a non-zero error and has sent no CMD8, CMD58 or ACMD41 (CMD55, CMD41).
C4_Cmd0NotIdleFails ==
    Returned("init") /\ answers[CMD0].st \notin {-1, R_IDLE} =>
        /\ ret # 0
        /\ ~Sent(CMD8) /\ ~Sent(CMD58) /\ ~Sent(CMD55) /\ ~Sent(41)

\* the 32-bit argument of a command frame
FrameArg(frame) ==
    frame[2] * 2^24 + frame[3] * 2^16 + frame[4] * 2^8 + frame[5]

\* the last command on the bus is the read or write command of a transfer
TransferSent ==
    /\ call.op \in {"read", "write"}
    /\ last_cmd.cmd \in {CMD17, CMD18, CMD24, CMD25}
    /\ last_cmd.frame # << >>

\* C5: after mmc_init succeeded on the modern-card path, the handle is
\* block-addressed if bit 6 of the first OCR byte of the final CMD58 was
\* set and byte-addressed otherwise: the transfers made with the handle
\* address the card by block index in the first case and by byte address
\* in the second.
C5_AddressingFollowsCcs ==
    last_init.ok /\ last_init.modern /\ TransferSent =>
        FrameArg(last_cmd.frame) =
            IF last_init.ccs THEN BlockAddr(call.addr)
            ELSE BlockAddr(call.addr) * BLOCK_LEN

\* the last status of ACMD41 has the idle flag
Acmd41Idle == answers[41].st # -1 /\ BitAnd(answers[41].st, R_IDLE) # 0

\* C6: mmc_init always leaves the ACMD41 loop and returns; the loop makes
\* no round after the deadline of one second set at loop entry has passed,
\* and when the last ACMD41 status still had the idle flag mmc_init returns
\* the classification of that status, which is not success.
C6_IdleCardInitReturns ==
    /\ [](pc = "init_acmd41" =>
             now <= timeout + OS_TICKS_PER_SEC \div 10)
    /\ [](Returned("init") /\ Acmd41Idle =>
             /\ ret = mmc_error_by_status(answers[41].st)
             /\ ret # 0)
    /\ (pc = "init_acmd41" ~> pc = "idle")

\* an mmc_init whose card stayed idle has returned MMC_TIMEOUT after the
\* deadline
C6_Witness ==
    /\ Returned("init")
    /\ Acmd41Idle
    /\ now > timeout
    /\ rounds = 12
    /\ ret = MMC_TIMEOUT

\* C7: when the CMD8 status has no illegal-command flag: a fourth payload
\* byte other than 0xAA makes mmc_init return MMC_RESPONSE_ERROR; else a
\* third payload byte other than 0x01 makes it return MMC_VOLTAGE_ERROR;
\* either way no ACMD41 and no CMD58 was sent.
C7_Cmd8EchoChecks ==
    /\ Returned("init")
    /\ answers[CMD8].st # -1
    /\ BitAnd(answers[CMD8].st, R_ILLEGAL_COMMAND) = 0
    => LET p == answers[CMD8].data
       IN  /\ p[4] # 170 => ret = MMC_RESPONSE_ERROR
           /\ p[4] = 170 /\ p[3] # 1 => ret = MMC_VOLTAGE_ERROR
           /\ p[4] # 170 \/ p[3] # 1 =>
                  ~Sent(41) /\ ~Sent(CMD55) /\ ~Sent(CMD58)

\* mmc_init has returned MMC_VOLTAGE_ERROR for an echo with a good trailer
\* and a wrong voltage byte
C7_Witness ==
    /\ Returned("init")
    /\ answers[CMD8].st = R_IDLE
    /\ answers[CMD8].data = << 0, 0, 2, 170 >>
    /\ ret = MMC_VOLTAGE_ERROR

\* C8: if CMD0, CMD8, CMD58 or ACMD41 got no answer in its 255 polls (the
\* status still has the high bit), mmc_init returns a non-zero error.
C8_NoResponseFails ==
    /\ Returned("init")
    /\ \E c \in {CMD0, CMD8, CMD58, 41} : answers[c].st >= 128
    => ret # 0

\* the write command of the running call was accepted
WriteAccepted == answers[CMD24].st = 0 \/ answers[CMD25].st = 0

\* the last data-response token read and the number of polls of the busy
\* wait, of a write that has returned
LastDataResp == bus[Len(bus) - 1]
BusyPolls == bus[Len(bus)].v

\* C9: once the write command was accepted, mmc_write returns MMC_OK when
\* the low five bits of the last data-response token are 00101,
\* MMC_CRC_ERROR when they are 01011 and MMC_WRITE_ERROR otherwise, whether
\* the card released the line or the busy wait ran into its deadline.
C9_WriteReturnsTokenClass ==
    Returned("write") /\ WriteAccepted =>
        /\ LastDataResp.ev = "dresp"
        /\ ret = CASE LastDataResp.v % 32 = 5 -> MMC_OK
                    [] LastDataResp.v % 32 = 11 -> MMC_CRC_ERROR
                    [] OTHER -> MMC_WRITE_ERROR

\* a write whose blocks were accepted has returned MMC_OK although the card
\* kept the line busy up to the deadline of five seconds
C9_Witness ==
    /\ Returned("write")
    /\ WriteAccepted
    /\ LastDataResp.v = 229
    /\ BusyPolls = 500
    /\ res = 0
    /\ ret = MMC_OK

\* the flag `flag` of the classified status is set
Flag(flag) == BitAnd(status, flag) # 0

\* the flags that fall through to MMC_CARD_ERROR
PassThrough ==
    BitOr(BitOr(R_ERASE_RESET, R_ILLEGAL_COMMAND),
          BitOr(R_ERASE_ERROR, R_ADDR_ERROR))

\* C10 as stated: 0x00 gives MMC_OK; the idle flag gives MMC_TIMEOUT; the
\* CRC-error flag with idle clear gives MMC_CRC_ERROR; the parameter-error
\* flag with idle and CRC-error clear gives MMC_PARAM_ERROR; a status with
\* no flags but erase-reset, illegal-command, erase-error and address-error
\* gives MMC_CARD_ERROR.
C10_ClassifierAsStated ==
    pc = "classified" =>
        /\ status = 0 => rc = MMC_OK
        /\ Flag(R_IDLE) => rc = MMC_TIMEOUT
        /\ Flag(R_CRC_ERROR) /\ ~Flag(R_IDLE) => rc = MMC_CRC_ERROR
        /\ Flag(R_PARAM_ERROR) /\ ~Flag(R_IDLE) /\ ~Flag(R_CRC_ERROR) =>
               rc = MMC_PARAM_ERROR
        /\ status # 0 /\ BitAnd(status, PassThrough) = status =>
               rc = MMC_CARD_ERROR

\* C10: 0x00 gives MMC_OK; the idle flag gives MMC_TIMEOUT; the CRC-error
\* flag with idle, erase-reset and illegal-command clear gives
\* MMC_CRC_ERROR; the parameter-error flag with idle, erase-reset,
\* illegal-command, CRC-error, erase-error and address-error clear gives
\* MMC_PARAM_ERROR; a status with no flags but erase-reset,
\* illegal-command, erase-error and address-error gives MMC_CARD_ERROR.
C10_Classifier ==
    pc = "classified" =>
        /\ status = 0 => rc = MMC_OK
        /\ Flag(R_IDLE) => rc = MMC_TIMEOUT
        /\ /\ Flag(R_CRC_ERROR)
           /\ ~Flag(R_IDLE) /\ ~Flag(R_ERASE_RESET)
           /\ ~Flag(R_ILLEGAL_COMMAND)
           => rc = MMC_CRC_ERROR
        /\ /\ Flag(R_PARAM_ERROR)
           /\ ~Flag(R_IDLE) /\ ~Flag(R_CRC_ERROR)
           /\ BitAnd(status, PassThrough) = 0
           => rc = MMC_PARAM_ERROR
        /\ status # 0 /\ BitAnd(status, PassThrough) = status =>
               rc = MMC_CARD_ERROR

\* a status with the CRC-error and parameter-error flags was classified
C10_Witness ==
    /\ pc = "classified"
    /\ status = BitOr(R_CRC_ERROR, R_PARAM_ERROR)
    /\ rc = MMC_CRC_ERROR

\* C11: mmc_read and mmc_write called with a slot id other than 0 return
\* MMC_DEVICE_ERROR in one step in which nothing goes over the bus,
\* chip-select is not written, and the scratch buffer, the handle, the card
\* and the caller's buffer stay as they are.
C11_BadSlotNoEffect ==
    [][ /\ calls' = calls + 1
        /\ call'.op \in {"read", "write"}
        /\ call'.id # 0
        => /\ pc' = "idle"
           /\ ret' = MMC_DEVICE_ERROR
           /\ bus' = << >>
           /\ cs_asserts' = 0 /\ cs_releases' = 0
           /\ buf' = IF call'.len = 0 THEN << >>
                     ELSE << Run(IF call'.op = "read" THEN "fill" ELSE "src",
                                 0, call'.len) >>
           /\ UNCHANGED << gpio, g_block_buf, g_mmc_cfg, card, card_mode,
                           card_ptr, last_init >> ]_vars

\* a read on slot 1 has returned MMC_DEVICE_ERROR after an earlier read
\* had filled the scratch buffer
C11_Witness ==
    /\ Returned("read")
    /\ call.id = 1
    /\ call.len > 0
    /\ ret = MMC_DEVICE_ERROR
    /\ g_block_buf = CardBlock(card, 0)
    /\ bus = << >>

\* the whole card is what it was when the running call started
CardUnchanged == Preserved(0, NumBlocks * BLOCK_LEN)

\* number of bytes the block loop of a successful mmc_read copies
Delivered(addr, length) ==
    Min(length, Max(0, BlockCount(length) * BLOCK_LEN - Offset(addr)))

\* C12: against a card that accepts every block, the same mmc_write made
\* a second time leaves every block of the card as the first one left it;
\* an mmc_read of the range leaves the card alone and returns the bytes of
\* the source buffer, the same after one write and after two.
C12_WriteIdempotent ==
    /\ Returned("write") /\ calls >= 2 /\ ret = MMC_OK => CardUnchanged
    /\ call.op = "read" => CardUnchanged
    /\ Returned("read") /\ ret = MMC_OK =>
           \A i \in 0 .. call.len - 1 :
               /\ ByteAt(buf, i) =
                      IF i < Delivered(call.addr, call.len)
                      THEN CardByte(card, call.addr + i)
                      ELSE SourceByte("fill", i)
               /\ ByteAt(buf, i) =
                      IF i < Delivered(call.addr, call.len)
                      THEN SourceByte("src", i)
                      ELSE SourceByte("fill", i)

\* the unaligned two-block write was made twice and accepted, and the
\* range was read back: the card is as the second write left it and the
\* read returned the source bytes
C12_Witness ==
    /\ Returned("read")
    /\ calls = 3
    /\ call.addr = 100 /\ call.len = 600
    /\ ret = MMC_OK
    /\ ByteAt(buf, 0) = SourceByte("src", 0)
    /\ ByteAt(buf, 599) = SourceByte("src", 599)
    /\ CardByte(card, 100) = SourceByte("src", 0)
    /\ CardUnchanged

\* number of 512-byte blocks that cover [addr, addr + length)
SpanBlocks(addr, length) ==
    (length + (addr % BLOCK_LEN) + BLOCK_LEN - 1) \div BLOCK_LEN

\* the positions of the bus log that hold event e
Events(e) == { i \in 1 .. Len(bus) : bus[i] = e }

\* C13: mmc_read works on SpanBlocks(byte_address, length) blocks: it sends
\* CMD17 when that number is 1 and CMD18 otherwise, and a read that
\* returned MMC_OK has read that many blocks of 512 bytes, each followed by
\* two bytes read and dropped.
C13_ReadBlockSpan ==
    call.op = "read" =>
        /\ Sent(CMD17) => SpanBlocks(call.addr, call.len) = 1
        /\ Sent(CMD18) => SpanBlocks(call.addr, call.len) # 1
        /\ pc = "idle" /\ ret = MMC_OK =>
               /\ Cardinality(Events(Rx(BLOCK_LEN)))
                      = SpanBlocks(call.addr, call.len)
               /\ \A i \in Events(Rx(BLOCK_LEN)) :
                      i < Len(bus) /\ bus[i + 1] = Rx(2)

\* the positions of the bus log at which a data block of 512 bytes is sent
DataBlocks == Events([ev |-> "tx", v |-> BLOCK_LEN])

\* C14: an mmc_write whose blocks the card all accepted has sent
\* SpanBlocks(byte_address, length) data blocks: exactly one, with start
\* token 0xFE, after CMD24; each with start token 0xFC after CMD25; none
\* for length 0 at an aligned address.
C14_WriteBlockSpan ==
    Returned("write") /\ ret = MMC_OK =>
        /\ Cardinality(DataBlocks) = SpanBlocks(call.addr, call.len)
        /\ Sent(CMD24) => Cardinality(DataBlocks) = 1
        /\ \A i \in DataBlocks :
               bus[i - 1] = [ev |-> "tx",
                             v |-> IF Sent(CMD24) THEN 254 ELSE 252]

\* the positions of the bus log that hold a data-response token other
\* than "accepted"
Rejections ==
    { i \in 1 .. Len(bus) : bus[i].ev = "dresp" /\ bus[i].v % 32 # 5 }

\* C15: a data-response token whose low five bits are not 00101 is the
\* last thing on the bus but for the busy poll: no start token and no data
\* block follows it, and the call returns a non-zero value.
C15_RejectionEndsWrite ==
    \A i \in Rejections :
        \/ /\ i = Len(bus)
           /\ pc \in {"write_done", "write_busy", "write_busy_sleep"}
        \/ /\ i = Len(bus) - 1
           /\ bus[Len(bus)].ev = "busy"
           /\ Returned("write")
           /\ ret # 0

\* the CRC-error token for the first of two blocks ended the write
C15_Witness ==
    /\ Returned("write")
    /\ call.len = 600
    /\ Cardinality(DataBlocks) = 1
    /\ bus[Len(bus) - 1] = [ev |-> "dresp", v |-> 235]
    /\ ret = MMC_CRC_ERROR

\* the pre-read of the running mmc_write failed: CMD17 got a non-zero
\* status, or the wait for the start token ended with another byte
PreReadFailed ==
    \/ answers[CMD17].st > 0
    \/ \E i \in 1 .. Len(bus) : bus[i].ev = "token" /\ bus[i].v # 254

\* the pre-read of the running mmc_write is complete
PreReadDone ==
    /\ answers[CMD17].st = 0
    /\ Events([ev |-> "token", v |-> 254]) # {}
    /\ Events(Rx(BLOCK_LEN)) # {}

\* C16: in an mmc_write to an unaligned byte_address, CMD24/CMD25 is sent
\* only after CMD17 returned 0, the start token 0xFE came and the block was
\* read; when the pre-read fails mmc_write returns MMC_CARD_ERROR and sends
\* no write command and no data block.
C16_PreReadBeforeWrite ==
    call.op = "write" /\ call.id = 0 /\ call.addr % BLOCK_LEN # 0 =>
        /\ Sent(CMD24) \/ Sent(CMD25) => PreReadDone
        /\ PreReadFailed =>
               /\ ~Sent(CMD24) /\ ~Sent(CMD25)
               /\ DataBlocks = {}
               /\ pc = "idle" /\ ret = MMC_CARD_ERROR

\* an unaligned write has returned MMC_CARD_ERROR because the pre-read got
\* a byte that is not the start token
C16_Witness ==
    /\ Returned("write")
    /\ call.addr = 100
    /\ answers[CMD17].st = 0
    /\ bus[Len(bus)] = [ev |-> "token", v |-> 9]
    /\ ret = MMC_CARD_ERROR

\* byte number i of the answer stream of the last command
Polled(i) == StreamByte(last_cmd.stream, i)

\* C17: after the frame send_mmc_cmd makes at least one and at most 255
\* response polls; every byte polled before the last has the high bit set;
\* it stops before poll 255 only on a byte with the high bit clear; it
\* returns the last byte polled, which has the high bit set when all 255
\* bytes had.
C17_PollLoopBounded ==
    pc = "sent" =>
        /\ Len(last_cmd.frame) = 6
        /\ last_cmd.polls \in 1 .. 255
        /\ \A j \in 1 .. last_cmd.polls - 1 : Polled(j) >= 128
        /\ last_cmd.polls < 255 => Polled(last_cmd.polls) < 128
        /\ status = Polled(last_cmd.polls)
        /\ (\A j \in 1 .. 255 : Polled(j) >= 128) => status >= 128

\* the card answered at the last of the 255 polls and send_mmc_cmd returned
\* that byte
C17_Witness ==
    /\ pc = "sent"
    /\ last_cmd.stream = [n |-> 254, b |-> 1]
    /\ last_cmd.polls = 255
    /\ status = 1

\* C18: a command with the marker 0x80 is sent as two exchanges, a
\* complete CMD55 exchange with argument 0 and then the target command,
\* whatever CMD55 returned; a command without the marker is sent as one
\* exchange, with no CMD55 before it.
C18_AppCmdPrefix ==
    pc = "sent" =>
        IF BitAnd(cmd, 128) # 0
        THEN /\ Len(last_send) = 2
             /\ last_send[1].cmd = CMD55
             /\ last_send[1].frame = << 64 + CMD55, 0, 0, 0, 0, 1 >>
             /\ last_send[1].polls \in 1 .. 255
             /\ last_send[2].cmd = cmd - 128
             /\ last_send[2].frame[1] = 64 + cmd - 128
             /\ FrameArg(last_send[2].frame) = block_addr
             /\ bus = << [ev |-> "cmd", v |-> CMD55],
                         [ev |-> "cmd", v |-> cmd - 128] >>
        ELSE /\ Len(last_send) = 1
             /\ last_send[1].cmd = cmd
             /\ bus = << [ev |-> "cmd", v |-> cmd] >>

\* ACMD41 was sent after a CMD55 that got no answer in its 255 polls
C18_Witness ==
    /\ pc = "sent"
    /\ cmd = ACMD41
    /\ last_send[1].status = 255
    /\ last_send[1].polls = 255
    /\ last_send[2].cmd = 41
    /\ status = 0

\* the call logged the bus event e
Logged(e) == \E i \in DOMAIN bus : bus[i] = e

\* the call is in a wait loop, about to poll after `rounds` sleeps of d
\* ticks each, or asleep after `rounds` polls: it is before the deadline,
\* which lies `limit` ticks after the start of the loop
InLoop(polling, sleeping, limit, d) ==
    /\ pc = polling =>
           /\ now < timeout
           /\ now - (timeout - limit) = rounds * d
    /\ pc = sleeping =>
           /\ rounds >= 1
           /\ now < timeout
           /\ now - (timeout - limit) = (rounds - 1) * d

\* the polling loops keep to their deadlines: a token wait that goes on is
\* before its 200 ms deadline and has slept 50 ms per round, a busy wait
\* that goes on is before its 5 s deadline and has slept 10 ms per round
LoopsBeforeDeadline ==
    /\ InLoop("read_token", "read_token_sleep",
              OS_TICKS_PER_SEC \div 5, OS_TICKS_PER_SEC \div 20)
    /\ InLoop("write_pre_token", "write_pre_sleep",
              OS_TICKS_PER_SEC \div 5, OS_TICKS_PER_SEC \div 20)
    /\ InLoop("write_busy", "write_busy_sleep",
              5 * OS_TICKS_PER_SEC, OS_TICKS_PER_SEC \div 100)

\* a call whose token wait ended without 0xFE has returned MMC_CARD_ERROR,
\* and a wait that saw no token at all ended at the deadline
TokenWaitEnds ==
    pc = "idle" =>
        /\ (\E i \in DOMAIN bus : bus[i].ev = "token" /\ bus[i].v # 254)
               => ret = MMC_CARD_ERROR
        /\ Logged([ev |-> "token", v |-> 255]) =>
               /\ now >= timeout
               /\ now < timeout + OS_TICKS_PER_SEC \div 20

\* the busy wait made the polls of its closed form, and when the card
\* never released the line it ended at the deadline
BusyWaitEnds ==
    pc = "idle" /\ bus # << >> /\ bus[Len(bus)].ev = "busy" =>
        /\ \E b \in BusyBehaviours :
               BusyWait(timeout - 5 * OS_TICKS_PER_SEC, timeout,
                        OS_TICKS_PER_SEC \div 100, b)
                   = [polls |-> bus[Len(bus)].v, now |-> now, res |-> res]
        /\ res = 0 =>
               /\ now >= timeout
               /\ now < timeout + OS_TICKS_PER_SEC \div 100
        /\ ret = status

\* C19: every mmc_read and mmc_write call returns, whatever the card does,
\* when every sleep returns with the tick counter advanced: the wait for
\* the start token ends at its 200 ms deadline, with MMC_CARD_ERROR when
\* the token was not 0xFE, and the busy wait after a write ends at its
\* 5 s deadline.
C19_TransfersTerminate ==
    /\ []LoopsBeforeDeadline
    /\ []TokenWaitEnds
    /\ []BusyWaitEnds
    /\ (pc # "idle") ~> (pc = "idle")

\* an mmc_write returned whose pre-read got its start token after one
\* sleep and whose card held the line busy up to the 5 s deadline
C19_Witness ==
    /\ Returned("write")
    /\ Logged([ev |-> "token", v |-> 254])
    /\ bus[Len(bus)] = [ev |-> "busy", v |-> 500]
    /\ res = 0
    /\ timeout = OS_TICKS_PER_SEC \div 20 + 5 * OS_TICKS_PER_SEC
    /\ now = timeout

\* what a step taken in a block loop keeps to
BlockLoopBounds ==
    pc \in {"read_block", "write_block"} =>
        /\ index' >= index
        /\ offset + (index' - index) <= BLOCK_LEN
        /\ index' <= call.len
        /\ len' >= 0
        /\ index' + len' = call.len
        /\ RLen(g_block_buf') = BLOCK_LEN
        /\ RLen(buf') = call.len

\* C20: in every round of the block loops of mmc_read and mmc_write the
\* copy stays inside the 512-byte scratch buffer (offset + amount <= 512)
\* and inside the caller's buffer: the bytes copied so far never exceed
\* the requested length, and copied plus remaining is the requested length.
C20_BlockLoopBounds == [][BlockLoopBounds]_vars

\* mmc_write(0, 100, buf, 600) after its first round: 412 bytes went to
\* scratch bytes 100 .. 511, 188 bytes are left for the second round
C20_Witness ==
    /\ pc = "write_block"
    /\ call.addr = 100
    /\ call.len = 600
    /\ index = 412
    /\ offset = 0
    /\ len = 188
    /\ RLen(g_block_buf) = BLOCK_LEN

====
